---- MODULE Spec2Model ----
(***************************************************************************)
(* Model of the plugin command dispatcher of src/src/loader.rs:            *)
(* CommandProcessor (load, unload, call, fetch_messages), the registrar    *)
(* that plugins fill at load time, and the CommandServiceServer            *)
(* introspection handlers.  Reference counts of Arc<Library> are kept      *)
(* explicitly, the std::sync::Mutex around the table is held by call for   *)
(* the whole execution of a command, and the iteration order of the        *)
(* HashMap of libraries is an unspecified permutation of its keys.         *)
(***************************************************************************)
EXTENDS Integers, Sequences, FiniteSets, Bags, TLC

VARIABLES
    libraries,        \* CommandProcessor.libraries: file name -> registrar
    order,            \* iteration order of the libraries HashMap (its keys)
    arcs,             \* every Library kept so far: path, state, Arc strong count
    client,           \* the thread calling load, unload and the two queries
    fetch,            \* the ingestion loop fetch_messages() and what it logged
    executing,        \* the command call() is awaiting while it holds the lock
    resolved,         \* the last two call("ping") picks since the table changed
    freed,            \* TRUE once an unload has emptied a slot of the table
    alive             \* FALSE once a panic has ended the process

vars ==
    <<libraries, order, arcs, client, fetch, executing, resolved, freed, alive>>

-----------------------------------------------------------------------------
(* Bounds *)

\* libraries one run registers commands from
MaxLibs == 3

-----------------------------------------------------------------------------
(* The host's build-time ABI constants and the plugin files on disk *)

RUSTC_VERSION == "1.55.0"
CORE_VERSION == "0.1.0"

\* The plugin directory.  A path is <<directory, file name>>.  A plugin file
\* says whether dlopen succeeds, whether it exports command_declaration, the
\* two version strings of the declaration and the register_command calls its
\* register function makes, in order.
Matching(regs) ==
    [opens |-> TRUE, hasDecl |-> TRUE,
     rustc_version |-> RUSTC_VERSION, core_version |-> CORE_VERSION,
     regs |-> regs]

Versioned(rustc, core) ==
    [opens |-> TRUE, hasDecl |-> TRUE,
     rustc_version |-> rustc, core_version |-> core,
     regs |-> << [name |-> "echo", aliases |-> <<>>] >>]

Paths ==
    { <<"d1", "a.so">>, <<"d1", "b.so">>, <<"d1", "c.so">>,
      <<"d1", "r.so">>, <<"d1", "k.so">>, <<"d1", "rk.so">>,
      <<"d1", "x.so">>, <<"d1", "n.so">>, <<"d2", "a.so">> }

PluginFile(p) ==
    CASE p = <<"d1", "a.so">> ->
           Matching(<< [name |-> "ping", aliases |-> <<"p">>] >>)
      [] p = <<"d1", "b.so">> ->
           Matching(<< [name |-> "p", aliases |-> <<>>],
                       [name |-> "ping", aliases |-> <<"p">>] >>)
      [] p = <<"d2", "a.so">> ->
           Matching(<< [name |-> "pong", aliases |-> <<"po", "pg">>] >>)
      [] p = <<"d1", "c.so">> -> Matching(<< >>)
      [] p = <<"d1", "r.so">> -> Versioned("1.56.0", "0.1.0")
      [] p = <<"d1", "k.so">> -> Versioned("1.55.0", "0.1.1")
      [] p = <<"d1", "rk.so">> -> Versioned("1.56.0", "0.1.1")
      [] p = <<"d1", "x.so">> ->
           [opens |-> FALSE, hasDecl |-> FALSE,
            rustc_version |-> "", core_version |-> "", regs |-> << >>]
      [] p = <<"d1", "n.so">> ->
           [opens |-> TRUE, hasDecl |-> FALSE,
            rustc_version |-> "", core_version |-> "", regs |-> << >>]

\* path.file_name(): the last component of the path
FileName(path) == path[Len(path)]

\* names unload() is asked for: a plugin with commands, the empty plugin
\* and one that never loads
UnloadNames == {"a.so", "c.so", "k.so"}

\* Chat texts, as <<prefix, word>>, and what Message::new makes of them
Texts == { <<"!", "ping">>, <<"!", "zz">>, <<"", "hi">> }

\* a Message::new that takes every text for a command
MessageNewAlwaysCommand(text) ==
    [has_command_info |-> TRUE,
     command_name |-> text[2],
     message |-> text]

MessageNew(text) ==
    [has_command_info |-> text[1] = "!",
     command_name |-> IF text[1] = "!" THEN text[2] ELSE "",
     message |-> text]

-----------------------------------------------------------------------------
(* Helpers *)

EmptyMap == [x \in {} |-> x]

Perms(S) ==
    { s \in [1..Cardinality(S) -> S] : \A i, j \in 1..Cardinality(S) :
                                          s[i] = s[j] => i = j }

\* s without the element k
RECURSIVE Without(_, _)
Without(s, k) ==
    IF s = <<>> THEN <<>>
    ELSE IF Head(s) = k THEN Without(Tail(s), k)
    ELSE <<Head(s)>> \o Without(Tail(s), k)

Range(s) == { s[i] : i \in DOMAIN s }

\* s with k put in as its i-th element
InsertAt(s, k, i) == SubSeq(s, 1, i - 1) \o <<k>> \o SubSeq(s, i, Len(s))

-----------------------------------------------------------------------------
(* CommandRegistrar: the table a plugin fills during registration.  rc is   *)
(* the strong count of the Arc<Library> the registrar and its proxies hold. *)

\* CommandRegistrar::new; the caller passed Arc::clone(&library_arc)
NewRegistrar(lib, library_name, rc) ==
    [commands |-> EmptyMap, lib |-> lib, library_name |-> library_name, rc |-> rc]

\* HashMap::insert: a displaced proxy is dropped and its Arc<Library> with it
HashInsert(reg, key, proxy) ==
    [reg EXCEPT !.commands = (key :> proxy) @@ reg.commands,
                !.rc = IF key \in DOMAIN reg.commands THEN @ - 1 ELSE @]

\* an alias entry that keeps the alias list of the proxy it was cloned from
AliasProxyKeepsList(proxy) == [proxy EXCEPT !.is_alias = TRUE]

\* the alias entry: a clone with is_alias set and the alias list cleared
AliasProxy(proxy) == [proxy EXCEPT !.is_alias = TRUE, !.aliases = <<>>]

\* a registration that stores no alias entries
InsertNoAliases(reg, proxy, aliases) == reg

RECURSIVE InsertAliases(_, _, _)
InsertAliases(reg, proxy, aliases) ==
    IF aliases = <<>> THEN reg
    ELSE InsertAliases(
             HashInsert([reg EXCEPT !.rc = @ + 1], Head(aliases), AliasProxy(proxy)),
             proxy, Tail(aliases))

RegisterCommand(reg, name, aliases, command) ==
    LET proxy == [command |-> command, lib |-> reg.lib,
                  lib_name |-> reg.library_name,
                  aliases |-> aliases, is_alias |-> FALSE]
        withProxy == [reg EXCEPT !.rc = @ + 1]
    IN  HashInsert(InsertAliases(withProxy, proxy, aliases), name, proxy)

\* (decl.register)(&mut registrar): the plugin's calls, one after the other;
\* the i-th call hands over the plugin's i-th implementation object
RECURSIVE RegisterFrom(_, _, _)
RegisterFrom(reg, regs, i) ==
    IF i > Len(regs) THEN reg
    ELSE RegisterFrom(
             RegisterCommand(reg, regs[i].name, regs[i].aliases, <<reg.lib, i>>),
             regs, i + 1)

-----------------------------------------------------------------------------
(* ProcessorError values *)

CommandNotFound(command) == [kind |-> "CommandNotFound", command |-> command]

CommandExecutionFailed(command, library, message) ==
    [kind |-> "CommandExecutionFailed", command |-> command,
     library |-> library, message |-> message]

LoadError(library_name) == [kind |-> "LoadError", library_name |-> library_name]

LibraryRustCVersionMismatch(library_name, rustc_version, actual_rustc_version) ==
    [kind |-> "LibraryRustCVersionMismatch", library_name |-> library_name,
     rustc_version |-> rustc_version,
     actual_rustc_version |-> actual_rustc_version]

LibraryCoreVersionMismatch(library_name, core_version, actual_core_version) ==
    [kind |-> "LibraryCoreVersionMismatch", library_name |-> library_name,
     core_version |-> core_version,
     actual_core_version |-> actual_core_version]

Ok == [kind |-> "Ok"]
None == [kind |-> "None"]

-----------------------------------------------------------------------------
(* Initial state: CommandProcessor::new, nothing loaded, the loop about to  *)
(* read its first record.  Beside the loop one client thread calls load,    *)
(* unload, ListCommands and GetCommand, one at a time: every one of them    *)
(* takes the table lock, so their effects are serialized in any case.       *)

\* the client's call in progress or last returned.  op: which call; path,
\* name: its argument; pending: the registrar load built, while it waits
\* for the lock; invoked: whether load called (decl.register); result:
\* what load returned; inflightLib: the library whose command was executing
\* when unload was called, 0 when none was; outcome: the branch unload took
IdleClient ==
    [pc |-> "idle", op |-> "none", path |-> <<>>, name |-> "",
     pending |-> <<>>, invoked |-> FALSE, result |-> None,
     inflightLib |-> 0, outcome |-> "none"]

LoadDone(path, invoked, result) ==
    [IdleClient EXCEPT !.op = "load", !.path = path, !.invoked = invoked,
                       !.result = result]

UnloadDone(name, inflightLib, outcome) ==
    [IdleClient EXCEPT !.op = "unload", !.name = name,
                       !.inflightLib = inflightLib, !.outcome = outcome]

\* one iteration of the while loop: the record, the lookups made for it,
\* whether a Message was built and call entered, and command_result
NextRecord(text) ==
    [pc |-> "lookup", text |-> text, lookups |-> 0, built |-> FALSE,
     entered |-> FALSE, fate |-> "", result |-> None, logs |-> {}]

Init ==
    /\ libraries = EmptyMap
    /\ order = <<>>
    /\ arcs = <<>>
    /\ client = IdleClient
    /\ fetch = [NextRecord(<<>>) EXCEPT !.pc = "read"]
    /\ executing = <<>>
    /\ resolved = <<>>
    /\ freed = FALSE
    /\ alive = TRUE

\* a table whose lock nobody ever holds
LockAlwaysFree == TRUE

\* the MutexGuard of the table is held from call's lock() to its return
LockFree == executing = <<>>

\* a panic in load (called from main) or in fetch_messages (awaited by
\* main) unwinds main: the process ends and its memory goes with it; what
\* stays is the record of the thread that panicked
Exited ==
    /\ alive' = FALSE
    /\ libraries' = EmptyMap
    /\ order' = <<>>
    /\ arcs' = <<>>
    /\ executing' = <<>>
    /\ resolved' = <<>>
    /\ freed' = FALSE

-----------------------------------------------------------------------------
(* Arc<Library> bookkeeping *)

\* Library::new succeeded: library_arc = Arc::new(library)
OpenLibrary(a, path, strong) ==
    Append(a, [path |-> path, state |-> "open", strong |-> strong,
               heldAtClose |-> 0])

\* n holders of library lib are dropped; the last one drops the Library,
\* whose Drop unmaps it
DropRefs(a, lib, n) ==
    [a EXCEPT ![lib] =
        IF @.strong - n = 0 /\ @.state = "open"
            THEN [@ EXCEPT !.strong = 0, !.state = "closed", !.path = <<>>]
            ELSE [@ EXCEPT !.strong = @ - n]]

\* a registrar is dropped: its lib field and every proxy of its table
DropRegistrar(a, reg) ==
    DropRefs(a, reg.lib, 1 + Cardinality(DOMAIN reg.commands))

\* a try_unwrap that does not look at the other holders
TryUnwrapAnyCount(strong) == strong >= 1

\* Arc::try_unwrap succeeds only for the last strong reference
TryUnwrap(strong) == strong = 1

-----------------------------------------------------------------------------
(* CommandProcessor::load *)

\* a gate that compares the runtime version only
VersionGateRustcOnly(file_name, decl) ==
    IF decl.rustc_version # RUSTC_VERSION
        THEN LibraryRustCVersionMismatch(file_name, RUSTC_VERSION,
                                         decl.rustc_version)
    ELSE Ok

\* a gate whose host-interface error has expected and actual exchanged
VersionGateSwapped(file_name, decl) ==
    IF decl.rustc_version # RUSTC_VERSION
        THEN LibraryRustCVersionMismatch(file_name, RUSTC_VERSION,
                                         decl.rustc_version)
    ELSE IF decl.core_version # CORE_VERSION
        THEN LibraryCoreVersionMismatch(file_name, decl.core_version,
                                        CORE_VERSION)
    ELSE Ok

\* the ABI gate: which error, if any, the declaration's versions give
VersionGate(file_name, decl) ==
    IF decl.rustc_version # RUSTC_VERSION
        THEN LibraryRustCVersionMismatch(file_name, RUSTC_VERSION,
                                         decl.rustc_version)
    ELSE IF decl.core_version # CORE_VERSION
        THEN LibraryCoreVersionMismatch(file_name, CORE_VERSION,
                                        decl.core_version)
    ELSE Ok

\* HashMap iteration order after inserting key: a key already present keeps
\* its slot; a new key lands in the free slot its hash sends it to and the
\* other keys keep theirs (the file names that can be loaded fit the first
\* allocation of the table, which therefore is never resized)
OrderAfterInsert(ord, key) ==
    IF key \in Range(ord) THEN {ord}
    ELSE { InsertAt(ord, key, i) : i \in 1..(Len(ord) + 1) }

\* an insert that keeps the registrar a key already has
InsertUnlessPresent(table, key, registrar) ==
    IF key \in DOMAIN table THEN table ELSE (key :> registrar) @@ table

\* lib.insert(file_name, Arc::new(registrar)): the registrar the key had,
\* if any, is replaced
InsertRegistrar(table, key, registrar) == (key :> registrar) @@ table

\* load from the lock() on: insert the registrar, dropping the one it
\* displaces, and drop library_arc on return.  a: the Arc counts so far
LoadInsert(path, reg, a) ==
    LET key == reg.library_name
        dropped == IF key \in DOMAIN libraries
                       THEN DropRegistrar(a, libraries[key])
                       ELSE a
    IN
    /\ libraries' = InsertRegistrar(libraries, key,
                                    [commands |-> reg.commands,
                                     lib |-> reg.lib,
                                     library_name |-> reg.library_name,
                                     arc |-> 1])
    /\ order' \in OrderAfterInsert(order, key)
    /\ arcs' = DropRefs(dropped, reg.lib, 1)
    /\ client' = LoadDone(path, TRUE, Ok)
    /\ resolved' = <<>>
    /\ UNCHANGED freed

\* load(path): open, read the declaration, gate, register, then lock and
\* insert; it blocks at the lock while call holds the table.  A library
\* that fails the gate is dropped, hence unmapped, before load returns, and
\* nothing else ever held it
Load(path) ==
    LET f == PluginFile(path)
        file_name == FileName(path)
        lib == Len(arcs) + 1
        gate == VersionGate(file_name, f)
        reg == RegisterFrom(NewRegistrar(lib, file_name, 2), f.regs, 1)
    IN
    /\ alive
    /\ client.pc = "idle"
    /\ IF ~f.opens
         THEN /\ client' = LoadDone(path, FALSE, LoadError(file_name))
              /\ UNCHANGED <<libraries, order, arcs, freed, resolved, alive, fetch,
                             executing>>
       ELSE IF ~f.hasDecl
         \* get(b"command_declaration\0").unwrap() panics
         THEN /\ Exited
              /\ client' = LoadDone(path, FALSE, None)
              /\ fetch' = [NextRecord(<<>>) EXCEPT !.pc = "stopped"]
       ELSE IF gate # Ok
         THEN /\ client' = LoadDone(path, FALSE, gate)
              /\ UNCHANGED <<libraries, order, arcs, freed, resolved, alive, fetch,
                             executing>>
       ELSE IF LockFree
         THEN /\ Len(arcs) < MaxLibs
              /\ LoadInsert(path, reg, OpenLibrary(arcs, path, reg.rc))
              /\ UNCHANGED <<alive, fetch, executing>>
       ELSE   /\ Len(arcs) < MaxLibs
              /\ arcs' = OpenLibrary(arcs, path, reg.rc)
              /\ client' = [LoadDone(path, TRUE, None) EXCEPT
                                !.pc = "locking", !.pending = <<reg>>]
              /\ UNCHANGED <<libraries, order, resolved, alive, fetch,
                             executing, freed>>

\* the load that waited gets the lock
LoadResume ==
    /\ alive
    /\ client.pc = "locking"
    /\ client.op = "load"
    /\ LockFree
    /\ LoadInsert(client.path, client.pending[1], arcs)
    /\ UNCHANGED <<fetch, executing, alive>>

-----------------------------------------------------------------------------
(* CommandProcessor::unload *)

\* HashMap::remove leaves the other keys in their slots
OrderAfterRemove(ord, key) == Without(ord, key)

RemoveKey(table, key) == [k \in DOMAIN table \ {key} |-> table[k]]

\* an insert that loses the commands drained from the registrar
ReinsertDrained(table, key, registrar) ==
    (key :> [registrar EXCEPT !.commands = EmptyMap]) @@ table

\* lib.insert(name, registrar) of the registrar unload took out
Reinsert(table, key, registrar) == (key :> registrar) @@ table

\* where the key unload took out lands when it is inserted again: the first
\* free slot of its probe sequence, which is the slot it had unless a slot
\* before that one was emptied by an unload in the meantime
OrderAfterReinsert(ord, key, emptied) ==
    IF emptied THEN OrderAfterInsert(OrderAfterRemove(ord, key), key)
    ELSE {ord}

\* the count had the drained proxies been dropped before the try_unwrap
LibraryStrongWithoutDrained(reg) ==
    arcs[reg.lib].strong - Cardinality(DOMAIN reg.commands)

\* the strong count Arc::try_unwrap(registrar.lib) meets: the proxies
\* drained into the local `commands` are still alive and each holds one
LibraryStrongAtUnwrap(reg) == arcs[reg.lib].strong

\* library.close(): the mapping is released, or the platform reports an
\* error; either way the Library is consumed.  held: strong references to
\* it that command proxies still hold at that moment
CloseLibrary(a, lib, closedOk, held) ==
    [a EXCEPT ![lib] = [@ EXCEPT !.state = IF closedOk THEN "closed"
                                              ELSE "close_failed",
                                 !.strong = 0, !.heldAtClose = held,
                                 !.path = <<>>]]

\* unload from the lock() on
UnloadLocked(name, inflightLib) ==
    LET reg == libraries[name]
        removed == RemoveKey(libraries, name)
        afterRemove == OrderAfterRemove(order, name)
    IN
    IF name \notin DOMAIN libraries
      THEN /\ client' = UnloadDone(name, inflightLib, "absent")
           /\ UNCHANGED <<libraries, order, arcs, freed, resolved>>
    ELSE IF ~TryUnwrap(reg.arc)
      THEN /\ libraries' = Reinsert(removed, name, reg)
           /\ order' \in OrderAfterReinsert(order, name, freed)
           /\ client' = UnloadDone(name, inflightLib, "registrar_busy")
           /\ resolved' = <<>>
           /\ UNCHANGED <<arcs, freed>>
    ELSE IF ~TryUnwrap(LibraryStrongAtUnwrap(reg))
      THEN /\ libraries' = Reinsert(removed, name,
                                    [commands |-> reg.commands,
                                     lib |-> reg.lib,
                                     library_name |-> name,
                                     arc |-> 1])
           /\ order' \in OrderAfterReinsert(order, name, freed)
           /\ client' = UnloadDone(name, inflightLib, "library_busy")
           /\ resolved' = <<>>
           /\ UNCHANGED <<arcs, freed>>
    ELSE \E closedOk \in BOOLEAN :
           /\ libraries' = removed
           /\ order' = afterRemove
           /\ arcs' = CloseLibrary(arcs, reg.lib, closedOk,
                                   arcs[reg.lib].strong - 1)
           /\ client' = UnloadDone(name, inflightLib,
                                   IF closedOk THEN "closed"
                                               ELSE "close_failed")
           /\ resolved' = <<>>
           /\ freed' = TRUE

\* unload(name); it blocks at the lock while call holds the table
Unload(name) ==
    /\ alive
    /\ client.pc = "idle"
    /\ IF LockFree
         THEN UnloadLocked(name, 0)
         ELSE /\ client' = [UnloadDone(name,
                                       IF executing[1].lib_name = name
                                           THEN executing[1].lib ELSE 0,
                                       "none")
                               EXCEPT !.pc = "locking"]
              /\ UNCHANGED <<libraries, order, arcs, freed, resolved>>
    /\ UNCHANGED <<fetch, executing, alive>>

\* the unload that waited gets the lock
UnloadResume ==
    /\ alive
    /\ client.pc = "locking"
    /\ client.op = "unload"
    /\ LockFree
    /\ UnloadLocked(client.name, client.inflightLib)
    /\ UNCHANGED <<fetch, executing, alive>>

-----------------------------------------------------------------------------
(* CommandProcessor::call *)

\* a lookup that settles for any command of the first registrar that has one
RECURSIVE LookupAnyCommand(_, _, _)
LookupAnyCommand(ord, table, name) ==
    IF ord = <<>> THEN <<>>
    ELSE IF DOMAIN table[Head(ord)].commands # {}
        THEN << table[Head(ord)].commands[
                    IF name \in DOMAIN table[Head(ord)].commands THEN name
                    ELSE CHOOSE n \in DOMAIN table[Head(ord)].commands : TRUE] >>
    ELSE LookupAnyCommand(Tail(ord), table, name)

\* lib.values().find_map(|lib| lib.commands.get(name)): the first registrar,
\* in the HashMap's iteration order, that has the name
RECURSIVE Lookup(_, _, _)
Lookup(ord, table, name) ==
    IF ord = <<>> THEN <<>>
    ELSE IF name \in DOMAIN table[Head(ord)].commands
        THEN << table[Head(ord)].commands[name] >>
    ELSE Lookup(Tail(ord), table, name)

\* a call that rebuilds the table while it searches it
OrderAfterCallRehashed(ord) == Perms(Range(ord))

\* call only reads the table: values() borrows the HashMap, so the
\* iteration order after a call is the one before it
OrderAfterCall(ord) == {ord}

\* the name whose resolutions `resolved` records
Tracked == "ping"

\* the last two picks
Remember(picks, pick) ==
    IF Len(picks) < 2 THEN Append(picks, pick) ELSE <<picks[2], pick>>

-----------------------------------------------------------------------------
(* CommandProcessor::fetch_messages *)

\* stream.message() yields the next record
\* a loop that takes the next record without finishing the one at hand
StreamNextWhileBusy(text) ==
    /\ alive
    /\ fetch.pc \in {"read", "lookup", "retry", "dispatch", "execute"}
    /\ fetch' = NextRecord(text)
    /\ UNCHANGED <<libraries, order, arcs, freed, client, executing, resolved, alive>>

StreamNext(text) ==
    /\ alive
    /\ fetch.pc = "read"
    /\ fetch' = NextRecord(text)
    /\ UNCHANGED <<libraries, order, arcs, freed, client, executing, resolved, alive>>

\* stream.message() yields None or an error: fetch_messages returns
StreamEnd ==
    /\ alive
    /\ fetch.pc = "read"
    /\ fetch' = [NextRecord(<<>>) EXCEPT !.pc = "stopped"]
    /\ UNCHANGED <<libraries, order, arcs, freed, client, executing, resolved, alive>>

LookupOutcomes == {"ok", "not_found", "error"}

\* the first get_user_by_id; an error other than NotFound falls through to
\* user.unwrap(), which panics
FirstLookup(outcome) ==
    /\ alive
    /\ fetch.pc = "lookup"
    /\ IF outcome = "error"
         THEN /\ Exited
              /\ fetch' = [fetch EXCEPT !.lookups = @ + 1, !.pc = "panicked"]
              /\ client' = IdleClient
         ELSE /\ fetch' = [fetch EXCEPT
                             !.lookups = @ + 1,
                             !.pc = IF outcome = "ok" THEN "dispatch"
                                                      ELSE "retry",
                             !.logs = IF outcome = "ok" THEN @
                                                        ELSE @ \cup {"debug"}]
              /\ UNCHANGED <<libraries, order, arcs, freed, client, executing,
                             resolved, alive>>

\* a retry whose failure is not followed by continue
RetryLookupFallsThrough(outcome) ==
    /\ alive
    /\ fetch.pc = "retry"
    /\ fetch' = [fetch EXCEPT !.lookups = @ + 1, !.pc = "dispatch"]
    /\ UNCHANGED <<libraries, order, arcs, freed, client, executing, resolved, alive>>

\* the lookup repeated after the 100 ms sleep; any error skips the message
RetryLookup(outcome) ==
    /\ alive
    /\ fetch.pc = "retry"
    /\ fetch' = IF outcome = "ok"
                  THEN [fetch EXCEPT !.lookups = @ + 1, !.pc = "dispatch"]
                  ELSE [fetch EXCEPT !.lookups = @ + 1, !.pc = "read",
                                     !.fate = "dropped",
                                     !.logs = @ \cup {"warn"}]
    /\ UNCHANGED <<libraries, order, arcs, freed, client, executing, resolved, alive>>

\* Message::new, the has_command_info test and call() up to the await of
\* execute
Dispatch ==
    LET message == MessageNew(fetch.text)
        lookup == Lookup(order, libraries, message.command_name)
    IN
    /\ alive
    /\ fetch.pc = "dispatch"
    /\ LockFree
    /\ IF ~message.has_command_info
         THEN /\ fetch' = [fetch EXCEPT !.built = TRUE, !.pc = "read",
                                        !.fate = "no_command"]
              /\ UNCHANGED <<order, executing, resolved>>
       ELSE IF lookup = <<>>
         THEN /\ fetch' = [fetch EXCEPT !.built = TRUE, !.entered = TRUE,
                                        !.pc = "read", !.fate = "not_found",
                                        !.logs = @ \cup {"debug"},
                                        !.result =
                                          CommandNotFound(message.command_name)]
              /\ order' \in OrderAfterCall(order)
              /\ UNCHANGED <<executing, resolved>>
       ELSE   /\ fetch' = [fetch EXCEPT !.built = TRUE, !.entered = TRUE,
                                        !.pc = "execute"]
              /\ executing' = << [command_name |-> message.command_name,
                                  raw_message |-> message.message,
                                  command |-> lookup[1].command,
                                  lib |-> lookup[1].lib,
                                  lib_name |-> lookup[1].lib_name] >>
              /\ order' \in OrderAfterCall(order)
              /\ resolved' = IF message.command_name = Tracked
                               THEN Remember(resolved,
                                             <<lookup[1].lib_name,
                                               lookup[1].command>>)
                               ELSE resolved
    /\ UNCHANGED <<libraries, arcs, freed, client, alive>>

\* a loop that returns the error of call with `?`
ExecuteReturnPropagates(succeeded) ==
    /\ alive
    /\ fetch.pc = "execute"
    /\ executing' = <<>>
    /\ fetch' = [fetch EXCEPT
                   !.pc = IF succeeded THEN "read" ELSE "stopped",
                   !.fate = IF succeeded THEN "executed" ELSE "failed",
                   !.logs = IF succeeded THEN @ ELSE @ \cup {"error"},
                   !.result = IF succeeded THEN Ok
                              ELSE CommandExecutionFailed(
                                       executing[1].command_name,
                                       executing[1].lib_name,
                                       executing[1].raw_message)]
    /\ UNCHANGED <<libraries, order, arcs, freed, client, resolved, alive>>

\* execute returns; call returns and its guard is dropped
ExecuteReturn(succeeded) ==
    /\ alive
    /\ fetch.pc = "execute"
    /\ executing' = <<>>
    /\ fetch' = [fetch EXCEPT
                   !.pc = "read",
                   !.fate = IF succeeded THEN "executed" ELSE "failed",
                   !.logs = IF succeeded THEN @ ELSE @ \cup {"error"},
                   !.result = IF succeeded THEN Ok
                              ELSE CommandExecutionFailed(
                                       executing[1].command_name,
                                       executing[1].lib_name,
                                       executing[1].raw_message)]
    /\ UNCHANGED <<libraries, order, arcs, freed, client, resolved, alive>>

-----------------------------------------------------------------------------
(* CommandServiceServer::get_commands *)

\* one Command per non-alias proxy of every registrar; the Vec's element
\* order is the HashMaps' iteration order and is not kept
ListCommands(table) ==
    [commands |-> SetToBag(UNION {
        { [name |-> n, aliases |-> table[k].commands[n].aliases,
           description |-> "A command for ByersPlusPlus", library |-> k] :
          n \in { m \in DOMAIN table[k].commands :
                     ~table[k].commands[m].is_alias } } :
        k \in DOMAIN table }),
     count |-> Cardinality(DOMAIN table)]

\* a ListCommands request: the handler locks the table and answers
\* ListCommands(libraries); it blocks at the lock while call holds the table
GetCommands ==
    /\ alive
    /\ client.pc = "idle"
    /\ client' = [IdleClient EXCEPT !.op = "list",
                                    !.pc = IF LockFree THEN "idle"
                                                       ELSE "locking"]
    /\ UNCHANGED <<libraries, order, arcs, freed, fetch, executing, resolved, alive>>

\* the handler that waited gets the lock
GetCommandsResume ==
    /\ alive
    /\ client.pc = "locking"
    /\ client.op = "list"
    /\ LockFree
    /\ client' = [IdleClient EXCEPT !.op = "list"]
    /\ UNCHANGED <<libraries, order, arcs, freed, fetch, executing, resolved, alive>>

-----------------------------------------------------------------------------
(* CommandServiceServer::get_command *)

\* command names GetCommand is asked for: a canonical name and an alias
CommandNames == {"ping", "p"}

\* a search that does not pass over alias entries
RECURSIVE GetCommandResponseAnyEntry(_, _, _)
GetCommandResponseAnyEntry(ord, table, name) ==
    IF ord = <<>> THEN <<>>
    ELSE IF name \in DOMAIN table[Head(ord)].commands
        THEN << [name |-> name,
                 aliases |-> table[Head(ord)].commands[name].aliases,
                 description |-> "A command for ByersPlusPlus",
                 library |-> Head(ord)] >>
    ELSE GetCommandResponseAnyEntry(Tail(ord), table, name)

\* the first registrar in iteration order that has the name as a non-alias
\* entry answers; <<>> is Status::not_found
RECURSIVE GetCommandResponse(_, _, _)
GetCommandResponse(ord, table, name) ==
    IF ord = <<>> THEN <<>>
    ELSE IF /\ name \in DOMAIN table[Head(ord)].commands
            /\ ~table[Head(ord)].commands[name].is_alias
        THEN << [name |-> name,
                 aliases |-> table[Head(ord)].commands[name].aliases,
                 description |-> "A command for ByersPlusPlus",
                 library |-> Head(ord)] >>
    ELSE GetCommandResponse(Tail(ord), table, name)

\* a GetCommand request: the handler locks the table and answers
\* GetCommandResponse(order, libraries, name); it blocks at the lock while
\* call holds the table
GetCommand(name) ==
    /\ alive
    /\ client.pc = "idle"
    /\ client' = [IdleClient EXCEPT !.op = "get", !.name = name,
                                    !.pc = IF LockFree THEN "idle"
                                                       ELSE "locking"]
    /\ UNCHANGED <<libraries, order, arcs, freed, fetch, executing, resolved, alive>>

\* the handler that waited gets the lock
GetCommandResume ==
    /\ alive
    /\ client.pc = "locking"
    /\ client.op = "get"
    /\ LockFree
    /\ client' = [client EXCEPT !.pc = "idle"]
    /\ UNCHANGED <<libraries, order, arcs, freed, fetch, executing, resolved, alive>>

-----------------------------------------------------------------------------

Next ==
    \/ \E path \in Paths : Load(path)
    \/ LoadResume
    \/ \E name \in UnloadNames : Unload(name)
    \/ UnloadResume
    \/ \E text \in Texts : StreamNext(text)
    \/ StreamEnd
    \/ \E outcome \in LookupOutcomes : FirstLookup(outcome)
    \/ \E outcome \in LookupOutcomes : RetryLookup(outcome)
    \/ Dispatch
    \/ \E succeeded \in BOOLEAN : ExecuteReturn(succeeded)
    \/ GetCommands
    \/ GetCommandsResume
    \/ \E name \in CommandNames : GetCommand(name)
    \/ GetCommandResume

Spec == Init /\ [][Next]_vars

-----------------------------------------------------------------------------
(* What the plugins register, and who holds each library *)

\* every name and alias the plugin at path hands to register_command
RegisteredNames(path) ==
    UNION { {r.name} \cup Range(r.aliases) : r \in Range(PluginFile(path).regs) }

\* the names the plugin at path registers as command names proper
CanonicalNames(path) == { r.name : r \in Range(PluginFile(path).regs) }

\* the plugin at path handed implementation i over under the name n
RegisteredUnder(path, i, n) ==
    /\ i \in DOMAIN PluginFile(path).regs
    /\ n \in {PluginFile(path).regs[i].name}
             \cup Range(PluginFile(path).regs[i].aliases)

\* the proxies of a command table that hold library lib
ProxiesOf(commands, lib) == { n \in DOMAIN commands : commands[n].lib = lib }

\* the strong references to library lib that exist: the lib field and the
\* proxies of its registrar in the table, and, while a load waits for the
\* lock, library_arc and the registrar it built
Holders(lib) ==
    Cardinality({ k \in DOMAIN libraries : libraries[k].lib = lib })
    + Cardinality(UNION { { <<k, n>> : n \in ProxiesOf(libraries[k].commands, lib) } :
                          k \in DOMAIN libraries })
    + (IF client.pending # <<>> /\ client.pending[1].lib = lib
         THEN 2 + Cardinality(ProxiesOf(client.pending[1].commands, lib))
         ELSE 0)

-----------------------------------------------------------------------------
(* C1 *)

\* C1: unload(name) of a loaded library that has at least one command, with
\* no invocation in progress, removes it from the table: afterwards call
\* finds none of its names or aliases, ListCommands lists none of its
\* commands and its library count is one less.
C1_UnloadRemovesLibrary ==
    [][\A name \in UnloadNames :
         ( /\ Unload(name)
           /\ LockFree
           /\ name \in DOMAIN libraries
           /\ DOMAIN libraries[name].commands # {} )
         => /\ name \notin DOMAIN libraries'
            /\ \A n \in DOMAIN libraries[name].commands :
                   Lookup(order', libraries', n) = <<>>
            /\ \A e \in BagToSet(ListCommands(libraries').commands) :
                   e.library # name
            /\ ListCommands(libraries').count
                   = ListCommands(libraries).count - 1]_vars

-----------------------------------------------------------------------------
(* C2 *)

\* C2: no command runs, and none can be started, once its library is
\* closed: the library of every proxy in the table, of the registrar a load
\* is about to insert and of the command being executed is open; the strong
\* count of every library is the number of its holders; and a library was
\* closed only when no proxy held it.
C2_NoEntryOutlivesItsLibrary ==
    /\ \A k \in DOMAIN libraries :
          /\ arcs[libraries[k].lib].state = "open"
          /\ \A n \in DOMAIN libraries[k].commands :
                 arcs[libraries[k].commands[n].lib].state = "open"
    /\ client.pending # <<>> => arcs[client.pending[1].lib].state = "open"
    /\ executing # <<>> =>
          /\ arcs[executing[1].lib].state = "open"
          /\ \E k \in DOMAIN libraries :
                 /\ executing[1].command_name \in DOMAIN libraries[k].commands
                 /\ libraries[k].commands[executing[1].command_name].command
                        = executing[1].command
    /\ \A lib \in DOMAIN arcs :
          /\ arcs[lib].strong = Holders(lib)
          /\ arcs[lib].state # "open" =>
                 /\ arcs[lib].heldAtClose = 0
                 /\ Holders(lib) = 0

\* an unload closed a library while a command of another one is executing
C2_Witness ==
    /\ executing # <<>>
    /\ \E lib \in DOMAIN arcs : arcs[lib].state = "closed"
    /\ client.op = "unload"
    /\ client.outcome = "closed"

-----------------------------------------------------------------------------
(* C3 *)

\* the last call of the client was a load that returned Ok
LoadedOk == client.op = "load" /\ client.pc = "idle" /\ client.result = Ok

\* C3 as claimed: after load returns Ok, call with any name or alias the
\* plugin registered finds an entry and invokes an implementation that this
\* plugin registered under it.
C3_CallRunsThisPluginsCommand ==
    LoadedOk =>
        \A n \in RegisteredNames(client.path) :
            LET found == Lookup(order, libraries, n)
            IN  /\ found # <<>>
                /\ found[1].lib = libraries[FileName(client.path)].lib
                /\ RegisteredUnder(client.path, found[1].command[2], n)

\* C3 as amended: after load of a plugin with matching versions returns Ok,
\* call with any name or alias the plugin registered finds an entry; the
\* implementation it invokes is the one some loaded library holds under
\* that name, and it is one this plugin registered under it whenever no
\* other loaded library has the name.
C3_RegisteredNamesReachable ==
    /\ ( /\ client.op = "load"
         /\ client.pc = "idle"
         /\ client.path # <<>>
         /\ PluginFile(client.path).opens
         /\ PluginFile(client.path).hasDecl
         /\ PluginFile(client.path).rustc_version = RUSTC_VERSION
         /\ PluginFile(client.path).core_version = CORE_VERSION
         /\ alive )
       => client.result = Ok
    /\ LoadedOk =>
        \A n \in RegisteredNames(client.path) :
            LET found == Lookup(order, libraries, n)
                mine == FileName(client.path)
            IN  /\ found # <<>>
                /\ \E k \in DOMAIN libraries :
                       /\ n \in DOMAIN libraries[k].commands
                       /\ found[1] = libraries[k].commands[n]
                /\ (\A k \in DOMAIN libraries \ {mine} :
                        n \notin DOMAIN libraries[k].commands)
                   => /\ found[1].lib = libraries[mine].lib
                      /\ found[1].lib_name = mine
                      /\ RegisteredUnder(client.path, found[1].command[2], n)

\* a plugin was loaded whose command name another loaded library has too
C3_Witness ==
    /\ LoadedOk
    /\ client.path = <<"d1", "b.so">>
    /\ "a.so" \in DOMAIN libraries

-----------------------------------------------------------------------------
(* C4 *)

\* the declaration at path is readable and one of its versions differs
Mismatched(path) ==
    /\ PluginFile(path).opens
    /\ PluginFile(path).hasDecl
    /\ \/ PluginFile(path).rustc_version # RUSTC_VERSION
       \/ PluginFile(path).core_version # CORE_VERSION

\* C4: load of a plugin with a differing runtime or host-interface version
\* returns a version-mismatch error, never invokes the registration
\* function and leaves the table, its order and every library as they were.
C4_MismatchNeverRegisters ==
    [][( /\ client'.path \in Paths
         /\ Mismatched(client'.path)
         /\ Load(client'.path) )
         => /\ client'.pc = "idle"
            /\ client'.result.kind \in {"LibraryRustCVersionMismatch",
                                       "LibraryCoreVersionMismatch"}
            /\ ~client'.invoked
            /\ libraries' = libraries
            /\ order' = order
            /\ arcs' = arcs
            /\ ListCommands(libraries') = ListCommands(libraries)]_vars

\* a load was refused for its host-interface version with a library loaded
C4_Witness ==
    /\ client.op = "load"
    /\ client.result.kind = "LibraryCoreVersionMismatch"
    /\ ~client.invoked
    /\ libraries # EmptyMap

-----------------------------------------------------------------------------
(* C5 *)

\* the entries of a ListCommands response for the name n of library k
EntriesNamed(resp, k, n) ==
    { e \in BagToSet(resp.commands) : e.name = n /\ e.library = k }

\* C5: ListCommands contains no alias entry and, for every loaded library,
\* exactly one entry for each canonical name that library registered.
C5_OneEntryPerCanonicalName ==
    LET resp == ListCommands(libraries)
    IN  /\ \A e \in BagToSet(resp.commands) :
               /\ CopiesIn(e, resp.commands) = 1
               /\ ~libraries[e.library].commands[e.name].is_alias
        /\ \A k \in DOMAIN libraries :
               \A n \in CanonicalNames(arcs[libraries[k].lib].path) :
                   Cardinality(EntriesNamed(resp, k, n)) = 1

-----------------------------------------------------------------------------
(* C6 *)

\* C6: an unload called while a command of that library was executing does
\* not run before the command has returned, and when it has finished the
\* registrar of that library is in the table as it was, every one of its
\* names and aliases is found by call, and the library is open.
C6_UnloadInFlightKeepsLibrary ==
    /\ (client.op = "unload" /\ client.pc = "locking" /\ executing # <<>>
        /\ client.inflightLib # 0)
       => /\ client.name \in DOMAIN libraries
          /\ libraries[client.name].lib = client.inflightLib
          /\ arcs[client.inflightLib].state = "open"
    /\ (client.op = "unload" /\ client.pc = "idle" /\ client.inflightLib # 0)
       => /\ client.outcome \in {"registrar_busy", "library_busy"}
          /\ client.name \in DOMAIN libraries
          /\ libraries[client.name].lib = client.inflightLib
          /\ arcs[client.inflightLib].state = "open"
          /\ \A n \in RegisteredNames(arcs[client.inflightLib].path) :
                 /\ n \in DOMAIN libraries[client.name].commands
                 /\ Lookup(order, libraries, n) # <<>>

\* an unload called during an execution of that library's command has run
C6_Witness ==
    /\ client.op = "unload"
    /\ client.pc = "idle"
    /\ client.inflightLib # 0
    /\ client.outcome = "library_busy"

-----------------------------------------------------------------------------
(* C7 *)

\* no registrar of the table has the name
Unregistered(name) ==
    \A k \in DOMAIN libraries : name \notin DOMAIN libraries[k].commands

\* C7: call with a command name that no registrar has returns
\* CommandNotFound carrying that name, starts no command and leaves the
\* table, its order and the libraries unchanged.
C7_UnknownNameNotFound ==
    [][( /\ Dispatch
         /\ MessageNew(fetch.text).has_command_info
         /\ Unregistered(MessageNew(fetch.text).command_name) )
       => /\ fetch'.result = [kind |-> "CommandNotFound",
                              command |-> MessageNew(fetch.text).command_name]
          /\ fetch'.entered
          /\ fetch'.pc = "read"
          /\ executing' = <<>>
          /\ libraries' = libraries
          /\ order' = order
          /\ arcs' = arcs]_vars

\* call returned CommandNotFound while a library is loaded
C7_Witness ==
    /\ fetch.fate = "not_found"
    /\ fetch.result.kind = "CommandNotFound"
    /\ libraries # EmptyMap

-----------------------------------------------------------------------------
(* C8 *)

\* C8: a record whose lookup is not found at first and not found again at
\* the single retry is dropped: two lookups were made, no Message was built,
\* call was not entered, nothing executes for it and the loop is back at
\* reading the stream.
C8_TwiceNotFoundIsDropped ==
    /\ [][RetryLookup("not_found")
          => /\ fetch'.pc = "read"
             /\ fetch'.fate = "dropped"
             /\ fetch'.lookups = 2
             /\ ~fetch'.built
             /\ ~fetch'.entered
             /\ fetch'.result = None
             /\ executing' = <<>>
             /\ alive']_vars
    /\ [](fetch.fate = "dropped"
          => /\ fetch.lookups = 2
             /\ ~fetch.built
             /\ ~fetch.entered
             /\ fetch.result = None
             /\ executing = <<>>)

\* a record has been dropped after its retry
C8_Witness ==
    /\ fetch.fate = "dropped"
    /\ fetch.pc = "read"
    /\ fetch.lookups = 2
    /\ libraries # EmptyMap

-----------------------------------------------------------------------------
(* C9 *)

-----------------------------------------------------------------------------
(* C10 *)

\* the last call of the client was a load of a plugin whose declaration is
\* readable and whose host-interface version differs from CORE_VERSION
LoadedCoreMismatch ==
    /\ client.op = "load"
    /\ client.pc = "idle"
    /\ client.path # <<>>
    /\ PluginFile(client.path).opens
    /\ PluginFile(client.path).hasDecl
    /\ PluginFile(client.path).core_version # CORE_VERSION

CoreMismatchOf(path) ==
    [kind |-> "LibraryCoreVersionMismatch",
     library_name |-> FileName(path),
     core_version |-> CORE_VERSION,
     actual_core_version |-> PluginFile(path).core_version]

\* C10 as claimed: load of a plugin whose host-interface version differs
\* fails with LibraryCoreVersionMismatch carrying the file name, the host's
\* version and the plugin's.
C10_CoreMismatchError ==
    LoadedCoreMismatch => client.result = CoreMismatchOf(client.path)

\* C10 as amended: load of a plugin whose runtime version equals the host's
\* and whose host-interface version differs fails with
\* LibraryCoreVersionMismatch carrying the file name, the host's version
\* and the plugin's.
C10_CoreMismatchErrorWhenRustcMatches ==
    ( /\ LoadedCoreMismatch
      /\ PluginFile(client.path).rustc_version = RUSTC_VERSION )
    => client.result = CoreMismatchOf(client.path)

\* a load was refused for its host-interface version alone
C10_Witness ==
    /\ LoadedCoreMismatch
    /\ PluginFile(client.path).rustc_version = RUSTC_VERSION
    /\ client.result.kind = "LibraryCoreVersionMismatch"

-----------------------------------------------------------------------------
(* C11 *)

\* C11: a message whose sender was resolved and whose text is not a command
\* is discarded: call is not entered, nothing executes, nothing is logged at
\* error severity for it, the table stays as it was and the loop is back at
\* reading the stream, where the next record can be read.
C11_NonCommandDiscarded ==
    /\ [][( /\ Dispatch
            /\ fetch.text \in Texts
            /\ fetch.text[1] # "!" )
          => /\ fetch'.pc = "read"
             /\ fetch'.fate = "no_command"
             /\ ~fetch'.entered
             /\ fetch'.result = None
             /\ "error" \notin fetch'.logs
             /\ executing' = <<>>
             /\ alive'
             /\ libraries' = libraries
             /\ order' = order
             /\ arcs' = arcs]_vars
    /\ []((fetch.fate = "no_command" /\ alive)
          => /\ fetch.pc = "read"
             /\ executing = <<>>
             /\ ENABLED (\E text \in Texts : StreamNext(text)))

\* a non-command message was discarded while a library was loaded
C11_Witness ==
    /\ fetch.fate = "no_command"
    /\ fetch.pc = "read"
    /\ fetch.built
    /\ libraries # EmptyMap

-----------------------------------------------------------------------------
(* C12 *)

\* C12: the loop stops only with the stream: whatever the outcome of the
\* first lookup, of the retry, of the dispatch and of the execution, the
\* step leaves the process running and the loop at its next step for this
\* record or back at reading the stream.
C12_LoopStopsOnlyWithStream ==
    [][( \/ \E outcome \in LookupOutcomes : FirstLookup(outcome)
         \/ \E outcome \in LookupOutcomes : RetryLookup(outcome)
         \/ Dispatch
         \/ \E succeeded \in BOOLEAN : ExecuteReturn(succeeded) )
       => /\ alive'
          /\ fetch'.pc \in {"retry", "dispatch", "execute", "read"}]_vars

-----------------------------------------------------------------------------
(* C13 *)

\* C13: a first lookup that fails, with not-found or with any other
\* classification, is followed by the single retry; the retry's success
\* sends the message on to dispatch and its failure drops the message.
C13_OtherLookupErrorsRetried ==
    /\ [][\A outcome \in LookupOutcomes \ {"ok"} :
            FirstLookup(outcome)
            => /\ alive'
               /\ fetch'.pc = "retry"
               /\ fetch'.lookups = 1]_vars
    /\ [][\A outcome \in LookupOutcomes :
            RetryLookup(outcome)
            => /\ fetch'.lookups = 2
               /\ fetch'.pc = IF outcome = "ok" THEN "dispatch" ELSE "read"
               /\ (outcome # "ok") => fetch'.fate = "dropped"]_vars

-----------------------------------------------------------------------------
(* C14 *)

\* the file at path cannot be loaded: it does not open, it lacks the
\* declaration symbol, or one of its versions differs
CannotLoad(path) ==
    \/ ~PluginFile(path).opens
    \/ ~PluginFile(path).hasDecl
    \/ Mismatched(path)

\* C14: load of a candidate that cannot be loaded returns an error to its
\* caller and leaves the process running and the table as it was, so the
\* loads of the later candidates still take place.
C14_BadPluginNeverBlocks ==
    [][( /\ client'.path \in Paths
         /\ CannotLoad(client'.path)
         /\ Load(client'.path) )
       => /\ alive'
          /\ client'.pc = "idle"
          /\ client'.result.kind \in {"LoadError",
                                     "LibraryRustCVersionMismatch",
                                     "LibraryCoreVersionMismatch"}
          /\ libraries' = libraries
          /\ order' = order]_vars

-----------------------------------------------------------------------------
(* C15 *)

\* C15: in a step taken while a command is executing (and that does not end
\* the process) the table and its order stay as they are and no load,
\* unload, ListCommands or GetCommand that needs the lock completes: a
\* request made meanwhile is left waiting at the lock, and a request that
\* waits is answered only by a step taken with no command executing.
C15_LockHeldAcrossExecute ==
    [][(executing # <<>> /\ alive')
       => /\ libraries' = libraries
          /\ order' = order
          /\ (client' # client /\ client'.op \in {"list", "get", "unload"})
             => client'.pc = "locking"
          /\ (client' # client /\ client'.op = "load")
             => \/ client'.pc = "locking"
                \/ client'.result.kind \in {"LoadError",
                                           "LibraryRustCVersionMismatch",
                                           "LibraryCoreVersionMismatch"}
          /\ client.pc = "locking" => client' = client]_vars

\* a ListCommands request waits at the lock while a command executes
C15_Witness ==
    /\ executing # <<>>
    /\ client.op = "list"
    /\ client.pc = "locking"

-----------------------------------------------------------------------------
(* C16 *)

\* C16: the loop reads a record only when the one before it has been
\* handled to its end (dropped, discarded, dispatched and returned) and
\* nothing is executing; at most one command executes at any moment and it
\* is the command of the record read last.
C16_OneMessageAtATime ==
    /\ [][\A text \in Texts :
            StreamNext(text)
            => /\ fetch.pc = "read"
               /\ executing = <<>>
               /\ fetch.text # <<>>
                  => fetch.fate \in {"dropped", "no_command", "not_found",
                                     "executed", "failed"}
               /\ executing' = <<>>]_vars
    /\ [](/\ Len(executing) <= 1
          /\ executing # <<>>
             => /\ fetch.pc = "execute"
                /\ fetch.text[1] = "!"
                /\ executing[1].command_name = fetch.text[2]
                /\ executing[1].raw_message = fetch.text)

\* a second record is read after the command of the first has returned
C16_Witness ==
    /\ fetch.pc = "execute"
    /\ executing # <<>>
    /\ fetch.lookups = 2
    /\ Len(resolved) = 2

-----------------------------------------------------------------------------
(* C17 *)

\* the step in which call returns an error to the loop
CallFails ==
    \/ /\ Dispatch
       /\ fetch.text[1] = "!"
       /\ Unregistered(fetch.text[2])
    \/ ExecuteReturn(FALSE)

\* C17: when call returns CommandNotFound or CommandExecutionFailed the
\* loop is back at reading the stream, the process runs on, nothing is left
\* executing and the table, its order and the libraries are as before the
\* dispatch; the next record can then be read.
C17_DispatchErrorKeepsLoop ==
    /\ [][CallFails
          => /\ fetch'.result.kind \in {"CommandNotFound",
                                       "CommandExecutionFailed"}
             /\ fetch'.pc = "read"
             /\ alive'
             /\ executing' = <<>>
             /\ libraries' = libraries
             /\ order' = order
             /\ arcs' = arcs]_vars
    /\ []((fetch.fate \in {"not_found", "failed"} /\ alive)
          => /\ fetch.pc = "read"
             /\ ENABLED (\E text \in Texts : StreamNext(text)))

\* call returned CommandExecutionFailed and the loop went on
C17_Witness ==
    /\ fetch.fate = "failed"
    /\ fetch.result.kind = "CommandExecutionFailed"
    /\ fetch.pc = "read"
    /\ "error" \in fetch.logs

-----------------------------------------------------------------------------
(* C18 *)

\* every command name some registrar has, and one that none has
KnownNames ==
    UNION { DOMAIN libraries[k].commands : k \in DOMAIN libraries } \cup {"zz"}

\* the registrars that have the name
LibrariesWith(name) ==
    { k \in DOMAIN libraries : name \in DOMAIN libraries[k].commands }

\* the step in which an unload returns without having closed the library
UnloadGivesUp ==
    /\ client'.op = "unload"
    /\ client'.pc = "idle"
    /\ client'.outcome \in {"absent", "registrar_busy", "library_busy"}
    /\ \/ Unload(client'.name)
       \/ UnloadResume

\* C18 as claimed: an unload that closes nothing leaves the table, the
\* libraries and the answer of ListCommands as they were, and call resolves
\* every name as it did before.
C18_FailedUnloadChangesNothing ==
    [][UnloadGivesUp
       => /\ libraries' = libraries
          /\ arcs' = arcs
          /\ ListCommands(libraries') = ListCommands(libraries)
          /\ \A n \in KnownNames :
                 Lookup(order', libraries', n) = Lookup(order, libraries, n)]_vars

\* C18 as amended: an unload that closes nothing leaves the table, the
\* libraries and the answer of ListCommands as they were; call finds the
\* names it found before, and resolves a name as it did before when the
\* name was absent from the table or at most one registrar has it, or when
\* no slot of the table has been emptied by an earlier unload.
C18_FailedUnloadKeepsRegistries ==
    [][UnloadGivesUp
       => /\ libraries' = libraries
          /\ arcs' = arcs
          /\ ListCommands(libraries') = ListCommands(libraries)
          /\ Range(order') = Range(order)
          /\ \A n \in KnownNames :
                 /\ (Lookup(order', libraries', n) = <<>>)
                    <=> (Lookup(order, libraries, n) = <<>>)
                 /\ ( \/ Cardinality(LibrariesWith(n)) <= 1
                      \/ client'.outcome = "absent"
                      \/ ~freed )
                    => Lookup(order', libraries', n)
                         = Lookup(order, libraries, n)]_vars

\* an unload found the library still held and put its registrar back
C18_Witness ==
    /\ client.op = "unload"
    /\ client.pc = "idle"
    /\ client.outcome = "library_busy"
    /\ client.name \in DOMAIN libraries
    /\ Cardinality(DOMAIN libraries) >= 2

-----------------------------------------------------------------------------
(* C19 *)

\* the step in which a load inserts its registrar and returns Ok
LoadInserts ==
    /\ client'.op = "load"
    /\ client'.pc = "idle"
    /\ client'.result = [kind |-> "Ok"]
    /\ \/ Load(client'.path)
       \/ LoadResume

\* the step in which an unload closes a library
UnloadCloses ==
    /\ client'.op = "unload"
    /\ client'.pc = "idle"
    /\ client'.outcome \in {"closed", "close_failed"}
    /\ \/ Unload(client'.name)
       \/ UnloadResume

\* C19: the table has one registrar per file name.  A load that returns Ok
\* puts its registrar under the file name of its path and leaves the other
\* keys alone; a registrar the key had is replaced: the key then holds
\* exactly the names the new plugin registered, every entry belongs to the
\* library just opened, and no entry of the table refers to the replaced
\* library.  The count of ListCommands is the number of keys: a load adds
\* one for a new file name and none for one already present, an unload
\* that closes takes one off, and no other step changes it.
C19_OneRegistryPerFileName ==
    /\ [][LoadInserts
          => LET key == client'.path[Len(client'.path)]
                 new == libraries'[key].lib
             IN  /\ DOMAIN libraries' = DOMAIN libraries \cup {key}
                 /\ \A k \in DOMAIN libraries \ {key} :
                        libraries'[k] = libraries[k]
                 /\ ListCommands(libraries').count
                      = Cardinality(DOMAIN libraries \cup {key})
                 /\ arcs'[new].path = client'.path
                 /\ DOMAIN libraries'[key].commands
                      = RegisteredNames(client'.path)
                 /\ \A n \in DOMAIN libraries'[key].commands :
                        libraries'[key].commands[n].lib = new
                 /\ key \in DOMAIN libraries
                    => /\ libraries[key].lib # new
                       /\ \A k \in DOMAIN libraries' :
                              ProxiesOf(libraries'[k].commands,
                                        libraries[key].lib) = {}]_vars
    /\ [][UnloadCloses
          => ListCommands(libraries').count
               = ListCommands(libraries).count - 1]_vars
    /\ [][(~LoadInserts /\ ~UnloadCloses /\ alive')
          => ListCommands(libraries').count
               = ListCommands(libraries).count]_vars
    /\ [](/\ Len(order) = Cardinality(DOMAIN libraries)
          /\ Range(order) = DOMAIN libraries
          /\ \A k \in DOMAIN libraries : libraries[k].library_name = k)

\* the file name a.so was loaded from a second directory over the first,
\* whose library, which no unload has closed, was released by the insert
C19_Witness ==
    /\ client.op = "load"
    /\ client.pc = "idle"
    /\ client.result = Ok
    /\ client.path = <<"d2", "a.so">>
    /\ ~freed
    /\ \E lib \in DOMAIN arcs :
           /\ arcs[lib].state = "closed"
           /\ lib < libraries["a.so"].lib
    /\ "pong" \in DOMAIN libraries["a.so"].commands
    /\ "ping" \notin DOMAIN libraries["a.so"].commands

-----------------------------------------------------------------------------
(* C20 *)

\* every register_command call of the plugin at path uses names no other
\* call of it uses, and no name twice
FreshNames(path) ==
    LET regs == PluginFile(path).regs
        names(i) == {regs[i].name} \cup Range(regs[i].aliases)
    IN  /\ \A i, j \in DOMAIN regs : i # j => names(i) \cap names(j) = {}
        /\ \A i \in DOMAIN regs :
               Cardinality(names(i)) = 1 + Len(regs[i].aliases)

\* C20: in the registrar of a plugin all of whose register_command calls
\* use fresh names, the keys are the names and aliases registered; each
\* canonical name has is_alias = FALSE, the alias list it was registered
\* with, the implementation of its call and the registrar's library; each
\* alias has is_alias = TRUE, no alias list, and the implementation and
\* library of its canonical entry.
C20_AliasEntriesShape ==
    \A k \in DOMAIN libraries :
        LET reg == libraries[k]
            path == arcs[reg.lib].path
            regs == PluginFile(path).regs
        IN  FreshNames(path)
            => /\ DOMAIN reg.commands = RegisteredNames(path)
               /\ \A i \in DOMAIN regs :
                      /\ reg.commands[regs[i].name]
                           = [command |-> <<reg.lib, i>>,
                              lib |-> reg.lib,
                              lib_name |-> k,
                              aliases |-> regs[i].aliases,
                              is_alias |-> FALSE]
                      /\ \A a \in Range(regs[i].aliases) :
                             reg.commands[a]
                               = [command |-> <<reg.lib, i>>,
                                  lib |-> reg.lib,
                                  lib_name |-> k,
                                  aliases |-> <<>>,
                                  is_alias |-> TRUE]

\* a plugin that registers one command with two aliases is in the table
C20_Witness ==
    /\ "a.so" \in DOMAIN libraries
    /\ arcs[libraries["a.so"].lib].path = <<"d2", "a.so">>
    /\ FreshNames(<<"d2", "a.so">>)
    /\ {"po", "pg"} \subseteq DOMAIN libraries["a.so"].commands

-----------------------------------------------------------------------------
(* C21 *)

\* the entries of a ListCommands response that carry the name
ListedAs(resp, name) == { e \in BagToSet(resp.commands) : e.name = name }

\* some registrar has the name, and every registrar that has it has it as
\* an alias entry
AliasOnly(name) ==
    /\ LibrariesWith(name) # {}
    /\ \A k \in LibrariesWith(name) : libraries[k].commands[name].is_alias

\* C21: on one and the same table GetCommand(name) returns an entry exactly
\* when ListCommands has an entry of that name, the entry returned is one
\* of those, and it is NotFound otherwise; a name that is in the table as
\* an alias only is NotFound although call finds it.  This holds for every
\* name of the table and for the name of the request just answered.
C21_GetCommandAgreesWithList ==
    LET resp == ListCommands(libraries)
        agrees(name) ==
            LET got == GetCommandResponse(order, libraries, name)
            IN  /\ (got # <<>>) <=> (ListedAs(resp, name) # {})
                /\ got # <<>>
                   => /\ Len(got) = 1
                      /\ got[1].name = name
                      /\ \E e \in ListedAs(resp, name) :
                             /\ e.name = got[1].name
                             /\ e.aliases = got[1].aliases
                             /\ e.library = got[1].library
                             /\ e.description = got[1].description
                /\ AliasOnly(name)
                   => /\ got = <<>>
                      /\ Lookup(order, libraries, name) # <<>>
    IN  /\ \A name \in KnownNames \cup CommandNames : agrees(name)
        /\ (client.op = "get" /\ client.pc = "idle") => agrees(client.name)

\* GetCommand was answered NotFound for a name call dispatches as an alias
C21_Witness ==
    /\ client.op = "get"
    /\ client.pc = "idle"
    /\ client.name = "p"
    /\ AliasOnly("p")
    /\ GetCommandResponse(order, libraries, "p") = <<>>
    /\ Lookup(order, libraries, "p") # <<>>
    /\ GetCommandResponse(order, libraries, "ping") # <<>>

====
